---- MODULE Spec2Model ----
(***************************************************************************)
(* Model of vms::core::Thread (src/src/thread_base.cpp): one Worker object *)
(* shared by caller threads and by the loop threads it spawns.             *)
(*                                                                         *)
(* Actors are the caller threads and the loop threads themselves (a loop   *)
(* thread may call start()/stop() from inside run()).  start() holds       *)
(* state_mutex_ over two steps (the flag store, then the thread creation)  *)
(* because the loop reads stop_flag_ without the mutex; the critical       *)
(* section of stop() is one step: its only effect visible outside the      *)
(* mutex is the single store to stop_flag_.                                *)
(***************************************************************************)
EXTENDS Integers, FiniteSets, Sequences, TLC

\* Number of loop threads the platform lets the Worker create; creating one
\* more fails (and creation may fail earlier, at any time).
MaxThreads == 2
\* Number of caller threads sharing the Worker.
NumCallers == 2
\* Pacing of the timing workers, in clock ticks: the delay or period passed
\* to the constructor, the latest tick of the clock, the longest time a
\* sleep may overshoot its wake-up time, the longest time one run() works,
\* and the number of recorded iterations after which run() stops itself.
Period == 2
MaxTime == 9
MaxOver == 1
MaxWork == 3
target_iterations_ == 3

Tids == 1..MaxThreads
Callers == {100 + i : i \in 1..NumCallers}
Controller == 101
Actors == Callers \cup Tids
NoThread == 0
\* Lifetime of the Worker object: alive, inside ~Thread() (the id of the
\* destroying caller), or destroyed.
Alive == 0
Destroyed == 0 - 1
\* The subclass destructor run by caller c has finished and ~Thread() has
\* not been entered yet: the subclass part of the object is gone.
SubclassGone(c) == 0 - c
\* Constructor arguments tried for the timing workers.
Args == {0 - 1, 0, Period}
Kinds == {"base", "timed", "hires"}

VARIABLES
    stop_flag_,     \* std::atomic<bool> stop_flag_
    thread_,        \* std::thread thread_: NoThread (not joinable) or a tid
    state_mutex_,   \* NoThread (free) or the actor inside start()
    nextTid,        \* number of loop threads created so far
    wpc,            \* position of each loop thread inside loop()
    hstate,         \* per loop thread: state of the hook-order monitor
    initOk,         \* per loop thread: "none" | "ok" | "fail"
    called,         \* per loop thread: the API call made by the current
                    \* run(): "no" | "start" | "stop"
    tobj,           \* per loop thread: its std::thread object
    apc,            \* per actor: "idle" | "spawn" | "join"
    join_handle,    \* per actor: the local join_handle of stop()
    snap,           \* per caller waiting in join(): the loop threads that
                    \* were live when its stop(true) began
    last,           \* the latest API event: <<actor, call, outcome>>
    init_calls,     \* number of init() invocations (all threads)
    uninit_calls,   \* number of uninit() invocations (all threads)
    dtor,           \* Alive, SubclassGone(c), the caller running
                    \* ~Thread(), or Destroyed
    kind,           \* dynamic type: "base" (Thread subclass without
                    \* pacing), "timed" (TimedThread), "hires"
    micro_sec,      \* the constructor argument
    sleep_duration_,   \* TimedThread::sleep_duration_
    loop_interval_,    \* HiResTimedThread::loop_interval_
    next_deadline_,    \* HiResTimedThread::next_deadline_; 0 is the unset
                       \* Clock::time_point{}
    first_iteration_,  \* HiResTimedThread::first_iteration_
    now,            \* Clock::now()
    timestamps_,    \* the times at which the recording run() was entered
    t0,             \* the time read by the first pre_run of the current
                    \* run (0: none yet)
    iters,          \* post_run calls completed in the current run
    pace            \* "exact" while every post_run of the current run found
                    \* the deadline ahead and woke exactly at it; "late"
                    \* after a wake-up past the deadline; "overrun" after a
                    \* post_run that found the deadline passed

vars == <<stop_flag_, thread_, state_mutex_, nextTid, wpc, hstate, initOk,
          called, tobj, apc, join_handle, snap, last, init_calls,
          uninit_calls, dtor, kind, micro_sec, sleep_duration_,
          loop_interval_, next_deadline_, first_iteration_, now, timestamps_,
          t0, iters, pace>>

\* The configuration fixed by the constructor.
configVars == <<kind, micro_sec, sleep_duration_, loop_interval_>>
\* What the hooks of the timing workers read and write.
hookVars == <<next_deadline_, first_iteration_, now, t0, pace>>
paceVars == <<configVars, hookVars, timestamps_, iters>>

workerVars == <<wpc, hstate, initOk, init_calls, uninit_calls>>

----------------------------------------------------------------------------
\* Hook-order monitor: the state reached after a sequence of hook calls on
\* one thread.  "init0"/"fin0" are the states with no iteration done.
Hooks == {"init", "pre_run", "run", "post_run", "uninit"}

Delta(h, hook) ==
    CASE h = "s0"    /\ hook = "init"     -> "init0"
      [] h = "init0" /\ hook = "pre_run"  -> "pre"
      [] h = "init0" /\ hook = "uninit"   -> "fin0"
      [] h = "pre"   /\ hook = "run"      -> "ran"
      [] h = "ran"   /\ hook = "post_run" -> "post"
      [] h = "post"  /\ hook = "pre_run"  -> "pre"
      [] h = "post"  /\ hook = "uninit"   -> "fin"
      [] OTHER -> "bad"

Live(t) == wpc[t] \notin {"unborn", "done"}
LiveSet == {t \in Tids : Live(t)}

\* An actor may issue an API call: a caller when idle, a loop thread from
\* inside run(), at most once per run() invocation; the recording run() of
\* the timing tests does so once it has recorded target_iterations_ times.
CanCall(a) ==
    /\ apc[a] = "idle"
    /\ a \in Tids => (wpc[a] = "in_run" /\ called[a] = "no")
    /\ (a \in Tids /\ kind # "base") =>
           Len(timestamps_) >= target_iterations_

MarkCalled(a, call) ==
    called' = IF a \in Tids THEN [called EXCEPT ![a] = call] ELSE called

\* Outcome recorded for a stop() that returns: "again" when it is a
\* stop(true) and the latest API event is the same actor's returned
\* stop(true).
StopOutcome(a, wait_join) ==
    IF wait_join /\ last \in {<<a, "stopT", "void">>, <<a, "stopT", "again">>}
    THEN "again" ELSE "void"

StopName(wait_join) == IF wait_join THEN "stopT" ELSE "stopF"

----------------------------------------------------------------------------
\* make_non_negative_duration, lines 143-146.
make_non_negative_duration_raw(microseconds) == microseconds

make_non_negative_duration(microseconds) ==
    IF microseconds < 0 THEN 0 ELSE microseconds

\* The constructors of Thread, TimedThread and HiResTimedThread (and of the
\* recording subclasses of the tests): the pacing fields of an object of
\* dynamic type k built with argument m.
Construct(k, m) ==
    /\ kind = k
    /\ micro_sec = m
    /\ sleep_duration_ =
           IF k = "timed" THEN make_non_negative_duration(m) ELSE 0
    /\ loop_interval_ =
           IF k = "hires" THEN make_non_negative_duration(m) ELSE 0
    /\ next_deadline_ = 0
    /\ first_iteration_ = TRUE
    /\ now = 1
    /\ timestamps_ = << >>
    /\ t0 = 0
    /\ iters = 0
    /\ pace = "exact"

\* Thread::Thread: stop flag set, no thread.
InitLifecycle ==
    /\ stop_flag_ = TRUE
    /\ thread_ = NoThread
    /\ state_mutex_ = NoThread
    /\ nextTid = 0
    /\ wpc = [t \in Tids |-> "unborn"]
    /\ hstate = [t \in Tids |-> "s0"]
    /\ initOk = [t \in Tids |-> "none"]
    /\ called = [t \in Tids |-> "no"]
    /\ tobj = [t \in Tids |-> "none"]
    /\ apc = [a \in Actors |-> "idle"]
    /\ join_handle = [a \in Actors |-> NoThread]
    /\ snap = [a \in Callers |-> {}]
    /\ last = <<NoThread, "none", "none">>
    /\ init_calls = 0
    /\ uninit_calls = 0
    /\ dtor = Alive

\* A Worker whose hooks do no pacing (the tests' LifecycleThread).
Init == InitLifecycle /\ Construct("base", 0)

\* A timing worker of either kind, built with any of the arguments.
InitPaced ==
    /\ InitLifecycle
    /\ \E k \in {"timed", "hires"} : \E m \in Args : Construct(k, m)

\* A precision-paced worker with a positive period.
InitHiRes == InitLifecycle /\ Construct("hires", Period)

----------------------------------------------------------------------------
\* Thread::start, lines 26-33: lock, joinable test, store false.
StartEnter(a) ==
    /\ CanCall(a)
    /\ state_mutex_ = NoThread
    /\ MarkCalled(a, "start")
    /\ IF thread_ # NoThread
       THEN /\ last' = <<a, "start", "false">>
            /\ UNCHANGED <<stop_flag_, state_mutex_, apc>>
       ELSE /\ stop_flag_' = FALSE
            /\ state_mutex_' = a
            /\ apc' = [apc EXCEPT ![a] = "spawn"]
            /\ last' = <<a, "start", "pending">>
    /\ UNCHANGED <<thread_, nextTid, tobj, join_handle, snap, workerVars>>
    /\ UNCHANGED <<dtor, paceVars>>

\* Variant of StartSpawn whose catch block does not store true again.
StartSpawn_noRestore(a) ==
    /\ apc[a] = "spawn"
    /\ state_mutex_ = a
    /\ \/ /\ nextTid < MaxThreads
          /\ nextTid' = nextTid + 1
          /\ thread_' = nextTid + 1
          /\ tobj' = [tobj EXCEPT ![nextTid + 1] = "joinable"]
          /\ wpc' = [wpc EXCEPT ![nextTid + 1] = "init"]
          /\ last' = <<a, "start", "true">>
       \/ /\ last' = <<a, "start", "throw">>
          /\ UNCHANGED <<nextTid, thread_, tobj, wpc>>
    /\ UNCHANGED stop_flag_
    /\ state_mutex_' = NoThread
    /\ apc' = [apc EXCEPT ![a] = "idle"]
    /\ UNCHANGED <<hstate, initOk, called, join_handle, snap, init_calls,
                   uninit_calls>>
    /\ UNCHANGED <<dtor, paceVars>>

\* Thread::start, lines 35-45: the thread is created, or creation throws,
\* the flag is stored true again and the exception leaves start().
StartSpawn(a) ==
    /\ apc[a] = "spawn"
    /\ state_mutex_ = a
    /\ \/ /\ nextTid < MaxThreads
          /\ nextTid' = nextTid + 1
          /\ thread_' = nextTid + 1
          /\ tobj' = [tobj EXCEPT ![nextTid + 1] = "joinable"]
          /\ wpc' = [wpc EXCEPT ![nextTid + 1] = "init"]
          /\ last' = <<a, "start", "true">>
          /\ UNCHANGED stop_flag_
       \/ /\ stop_flag_' = TRUE
          /\ last' = <<a, "start", "throw">>
          /\ UNCHANGED <<nextTid, thread_, tobj, wpc>>
    /\ state_mutex_' = NoThread
    /\ apc' = [apc EXCEPT ![a] = "idle"]
    /\ UNCHANGED <<hstate, initOk, called, join_handle, snap, init_calls,
                   uninit_calls>>
    /\ UNCHANGED <<dtor, paceVars>>

\* Thread::stop, lines 50-72: the critical section.  With no joinable
\* handle, with the caller's own handle, or with wait_join false, stop()
\* returns here; otherwise it takes the handle and goes on to join.
StopBody(a, wait_join) ==
    /\ CanCall(a)
    /\ state_mutex_ = NoThread
    /\ MarkCalled(a, "stop")
    /\ stop_flag_' = TRUE
    /\ IF thread_ # NoThread /\ thread_ # a /\ wait_join
       THEN /\ join_handle' = [join_handle EXCEPT ![a] = thread_]
            /\ thread_' = NoThread
            /\ apc' = [apc EXCEPT ![a] = "join"]
            /\ snap' = [c \in Callers |-> IF c = a THEN LiveSet ELSE snap[c]]
            /\ last' = <<a, "stopT", "pending">>
       ELSE /\ last' = <<a, StopName(wait_join), StopOutcome(a, wait_join)>>
            /\ UNCHANGED <<thread_, join_handle, apc, snap>>
    /\ UNCHANGED <<state_mutex_, nextTid, tobj, workerVars>>

\* Variant of StopEnter that detaches the handle when it does not join a
\* thread other than the calling one.
StopEnter_detach(a, wait_join) ==
    /\ CanCall(a)
    /\ state_mutex_ = NoThread
    /\ MarkCalled(a, "stop")
    /\ stop_flag_' = TRUE
    /\ IF thread_ # NoThread /\ thread_ # a /\ wait_join
       THEN /\ join_handle' = [join_handle EXCEPT ![a] = thread_]
            /\ thread_' = NoThread
            /\ apc' = [apc EXCEPT ![a] = "join"]
            /\ snap' = [c \in Callers |-> IF c = a THEN LiveSet ELSE snap[c]]
            /\ last' = <<a, "stopT", "pending">>
            /\ UNCHANGED tobj
       ELSE /\ last' = <<a, StopName(wait_join), StopOutcome(a, wait_join)>>
            /\ thread_' = NoThread
            /\ tobj' = IF thread_ # NoThread
                       THEN [tobj EXCEPT ![thread_] = "detached"]
                       ELSE tobj
            /\ UNCHANGED <<join_handle, apc, snap>>
    /\ UNCHANGED <<state_mutex_, nextTid, workerVars>>
    /\ UNCHANGED <<dtor, paceVars>>

\* Variant of StopEnter without the joinable test of line 58: joining an
\* empty handle throws.
StopEnter_noJoinableTest(a, wait_join) ==
    /\ CanCall(a)
    /\ state_mutex_ = NoThread
    /\ MarkCalled(a, "stop")
    /\ stop_flag_' = TRUE
    /\ IF thread_ # NoThread /\ thread_ # a /\ wait_join
       THEN /\ join_handle' = [join_handle EXCEPT ![a] = thread_]
            /\ thread_' = NoThread
            /\ apc' = [apc EXCEPT ![a] = "join"]
            /\ snap' = [c \in Callers |-> IF c = a THEN LiveSet ELSE snap[c]]
            /\ last' = <<a, "stopT", "pending">>
       ELSE /\ last' = <<a, StopName(wait_join),
                         IF thread_ = NoThread /\ wait_join
                         THEN "throw" ELSE StopOutcome(a, wait_join)>>
            /\ UNCHANGED <<thread_, join_handle, apc, snap>>
    /\ UNCHANGED <<state_mutex_, nextTid, tobj, workerVars>>
    /\ UNCHANGED <<dtor, paceVars>>

\* Variant of StopEnter that takes the handle for joining without having
\* stored true into the stop flag.
StopEnter_noStore(a, wait_join) ==
    /\ CanCall(a)
    /\ state_mutex_ = NoThread
    /\ MarkCalled(a, "stop")
    /\ IF thread_ # NoThread /\ thread_ # a /\ wait_join
       THEN /\ join_handle' = [join_handle EXCEPT ![a] = thread_]
            /\ thread_' = NoThread
            /\ apc' = [apc EXCEPT ![a] = "join"]
            /\ snap' = [c \in Callers |-> IF c = a THEN LiveSet ELSE snap[c]]
            /\ last' = <<a, "stopT", "pending">>
            /\ UNCHANGED stop_flag_
       ELSE /\ last' = <<a, StopName(wait_join), StopOutcome(a, wait_join)>>
            /\ stop_flag_' = TRUE
            /\ UNCHANGED <<thread_, join_handle, apc, snap>>
    /\ UNCHANGED <<state_mutex_, nextTid, tobj, workerVars>>
    /\ UNCHANGED <<dtor, paceVars>>

\* Thread::stop called on a living Worker.
StopEnter(a, wait_join) ==
    /\ StopBody(a, wait_join)
    /\ UNCHANGED <<dtor, paceVars>>

\* Thread::stop, lines 74-77: join_handle.join() returns once the thread
\* function has returned.  The outcome is "late" when other API events
\* happened while the caller was waiting.
StopJoin(a) ==
    /\ apc[a] = "join"
    /\ wpc[join_handle[a]] = "done"
    /\ tobj' = [tobj EXCEPT ![join_handle[a]] = "joined"]
    /\ join_handle' = [join_handle EXCEPT ![a] = NoThread]
    /\ apc' = [apc EXCEPT ![a] = "idle"]
    /\ snap' = [c \in Callers |-> IF c = a THEN {} ELSE snap[c]]
    /\ last' = <<a, "stopT",
                 IF last = <<a, "stopT", "pending">> THEN "void" ELSE "late">>
    /\ UNCHANGED <<stop_flag_, thread_, state_mutex_, nextTid, called,
                   workerVars>>
    /\ dtor' = IF dtor = a THEN Destroyed ELSE dtor
    /\ UNCHANGED paceVars

\* The destructor of the concrete subclass (implicit in the subclasses of
\* the tests, defaulted in HiResTimedThread), run by a caller thread while
\* no other caller is inside a member function: it stops nothing.
SubclassDtor(c) ==
    /\ dtor = Alive
    /\ \A a \in Callers : apc[a] = "idle"
    /\ state_mutex_ = NoThread
    /\ dtor' = SubclassGone(c)
    /\ UNCHANGED <<stop_flag_, thread_, state_mutex_, nextTid, called, tobj,
                   apc, join_handle, snap, last, workerVars, paceVars>>

\* Thread::loop, line 108, reached after the subclass part is gone: the
\* call of run() is dispatched to the pure virtual Thread::run and the
\* program is terminated.  (LoopRun is the other outcome: the override
\* still runs, on the destroyed subclass part.)
PureVirtualCall(t) ==
    /\ wpc[t] = "run"
    /\ dtor # Alive
    /\ wpc' = [wpc EXCEPT ![t] = "aborted"]
    /\ UNCHANGED <<stop_flag_, thread_, state_mutex_, nextTid, hstate, initOk,
                   called, tobj, apc, join_handle, snap, last, init_calls,
                   uninit_calls, dtor, paceVars>>

Aborted == \E t \in Tids : wpc[t] = "aborted"

\* Variant of DtorEnter whose stop does not wait for the thread.
DtorEnter_noWait(c) ==
    /\ dtor = Alive
    /\ \A a \in Callers : apc[a] = "idle"
    /\ StopBody(c, FALSE)
    /\ dtor' = Destroyed
    /\ UNCHANGED paceVars

\* Thread::~Thread, lines 19-22, run by a caller thread while no other
\* caller is inside a member function: stop(true).  With no thread to join
\* the destructor returns at once; otherwise it returns from StopJoin.  It
\* is entered on a living Worker (the subclass destructor taken as part of
\* the step) or after SubclassDtor of the same caller.
DtorEnter(c) ==
    /\ dtor \in {Alive, SubclassGone(c)}
    /\ \A a \in Callers : apc[a] = "idle"
    /\ StopBody(c, TRUE)
    /\ dtor' = IF apc'[c] = "join" THEN c ELSE Destroyed
    /\ UNCHANGED paceVars

----------------------------------------------------------------------------
\* The hooks, as far as pacing goes.  Thread::pre_run and Thread::post_run
\* are empty.
Thread_pre_run == UNCHANGED hookVars

Thread_post_run == UNCHANGED hookVars

Thread_uninit ==
    /\ t0' = 0
    /\ pace' = "exact"
    /\ UNCHANGED <<next_deadline_, first_iteration_, now>>

\* Variant of TimedThread::pre_run whose sleep is one tick short.
TimedThread_pre_run_short ==
    /\ IF sleep_duration_ > 0
       THEN \E over \in 0..MaxOver :
               /\ now' = now + sleep_duration_ - 1 + over
               /\ now' <= MaxTime
       ELSE now' = now
    /\ UNCHANGED <<next_deadline_, first_iteration_, t0, pace>>

\* TimedThread::pre_run, lines 158-164: sleep_for lets at least the delay
\* pass.
TimedThread_pre_run ==
    /\ IF sleep_duration_ > 0
       THEN \E over \in 0..MaxOver :
               /\ now' = now + sleep_duration_ + over
               /\ now' <= MaxTime
       ELSE now' = now
    /\ UNCHANGED <<next_deadline_, first_iteration_, t0, pace>>

\* Variant of HiResTimedThread::pre_run that arms the deadline on every
\* iteration.
HiResTimedThread_pre_run_rearm ==
    IF loop_interval_ = 0
    THEN UNCHANGED hookVars
    ELSE /\ next_deadline_' = now + loop_interval_
         /\ first_iteration_' = FALSE
         /\ t0' = IF first_iteration_ THEN now ELSE t0
         /\ UNCHANGED <<now, pace>>

\* HiResTimedThread::pre_run, lines 175-187.
HiResTimedThread_pre_run ==
    IF loop_interval_ = 0
    THEN UNCHANGED hookVars
    ELSE IF first_iteration_
         THEN /\ next_deadline_' = now + loop_interval_
              /\ first_iteration_' = FALSE
              /\ t0' = now
              /\ UNCHANGED <<now, pace>>
         ELSE UNCHANGED hookVars

\* Variant of HiResTimedThread::post_run that sleeps for the period instead
\* of until the deadline.
HiResTimedThread_post_run_relative ==
    IF loop_interval_ = 0
    THEN UNCHANGED hookVars
    ELSE IF now < next_deadline_
         THEN \E over \in 0..MaxOver :
                 /\ now' = now + loop_interval_ + over
                 /\ now' <= MaxTime
                 /\ next_deadline_' = next_deadline_ + loop_interval_
                 /\ pace' = IF over > 0 /\ pace = "exact" THEN "late" ELSE pace
                 /\ UNCHANGED <<first_iteration_, t0>>
         ELSE /\ next_deadline_' = now + loop_interval_
              /\ pace' = "overrun"
              /\ UNCHANGED <<now, first_iteration_, t0>>

\* Variant of HiResTimedThread::post_run that, after sleeping, takes the
\* next deadline from the time of the wake-up.
HiResTimedThread_post_run_fromNow ==
    IF loop_interval_ = 0
    THEN UNCHANGED hookVars
    ELSE IF now < next_deadline_
         THEN \E over \in 0..MaxOver :
                 /\ now' = next_deadline_ + over
                 /\ now' <= MaxTime
                 /\ next_deadline_' = now' + loop_interval_
                 /\ pace' = IF over > 0 /\ pace = "exact" THEN "late" ELSE pace
                 /\ UNCHANGED <<first_iteration_, t0>>
         ELSE /\ next_deadline_' = now + loop_interval_
              /\ pace' = "overrun"
              /\ UNCHANGED <<now, first_iteration_, t0>>

\* HiResTimedThread::post_run, lines 189-207: sleep_until wakes at the
\* deadline or later.
HiResTimedThread_post_run ==
    IF loop_interval_ = 0
    THEN UNCHANGED hookVars
    ELSE IF now < next_deadline_
         THEN \E over \in 0..MaxOver :
                 /\ now' = next_deadline_ + over
                 /\ now' <= MaxTime
                 /\ next_deadline_' = next_deadline_ + loop_interval_
                 /\ pace' = IF over > 0 /\ pace = "exact" THEN "late" ELSE pace
                 /\ UNCHANGED <<first_iteration_, t0>>
         ELSE /\ next_deadline_' = now + loop_interval_
              /\ pace' = "overrun"
              /\ UNCHANGED <<now, first_iteration_, t0>>

\* HiResTimedThread::uninit, lines 209-214.
HiResTimedThread_uninit ==
    /\ first_iteration_' = TRUE
    /\ next_deadline_' = 0
    /\ t0' = 0
    /\ pace' = "exact"
    /\ UNCHANGED now

----------------------------------------------------------------------------
\* Variant of LoopInit whose failure path returns without storing true.
LoopInit_noStore(t) ==
    /\ wpc[t] = "init"
    /\ hstate' = [hstate EXCEPT ![t] = Delta(hstate[t], "init")]
    /\ init_calls' = init_calls + 1
    /\ \E ok \in BOOLEAN :
         IF ok
         THEN /\ initOk' = [initOk EXCEPT ![t] = "ok"]
              /\ wpc' = [wpc EXCEPT ![t] = "check"]
         ELSE /\ initOk' = [initOk EXCEPT ![t] = "fail"]
              /\ wpc' = [wpc EXCEPT ![t] = "done"]
    /\ UNCHANGED <<stop_flag_, thread_, state_mutex_, nextTid, called, tobj,
                   apc, join_handle, snap, last, uninit_calls>>
    /\ UNCHANGED <<dtor, paceVars>>

\* Thread::loop, lines 99-103: init(); on failure store true and return.
LoopInit(t) ==
    /\ wpc[t] = "init"
    /\ hstate' = [hstate EXCEPT ![t] = Delta(hstate[t], "init")]
    /\ init_calls' = init_calls + 1
    /\ \E ok \in BOOLEAN :
         IF ok
         THEN /\ initOk' = [initOk EXCEPT ![t] = "ok"]
              /\ wpc' = [wpc EXCEPT ![t] = "check"]
              /\ UNCHANGED stop_flag_
         ELSE /\ initOk' = [initOk EXCEPT ![t] = "fail"]
              /\ stop_flag_' = TRUE
              /\ wpc' = [wpc EXCEPT ![t] = "done"]
    /\ UNCHANGED <<thread_, state_mutex_, nextTid, called, tobj, apc,
                   join_handle, snap, last, uninit_calls>>
    /\ UNCHANGED <<dtor, paceVars>>

\* Variant of LoopCheck that returns without uninit() when the flag is found
\* set before the first iteration.
LoopCheck_skipUninit(t) ==
    /\ wpc[t] = "check"
    /\ wpc' = [wpc EXCEPT ![t] =
                  IF stop_flag_
                  THEN (IF hstate[t] = "init0" THEN "done" ELSE "uninit")
                  ELSE "pre_run"]
    /\ UNCHANGED <<stop_flag_, thread_, state_mutex_, nextTid, hstate, initOk,
                   called, tobj, apc, join_handle, snap, last, init_calls,
                   uninit_calls>>
    /\ UNCHANGED <<dtor, paceVars>>

\* Thread::loop, line 105: the loop condition.
LoopCheck(t) ==
    /\ wpc[t] = "check"
    /\ wpc' = [wpc EXCEPT ![t] = IF stop_flag_ THEN "uninit" ELSE "pre_run"]
    /\ UNCHANGED <<stop_flag_, thread_, state_mutex_, nextTid, hstate, initOk,
                   called, tobj, apc, join_handle, snap, last, init_calls,
                   uninit_calls>>
    /\ UNCHANGED <<dtor, paceVars>>

\* Variant of LoopPreRun that tests the stop flag again before the
\* iteration and leaves the loop when it is set.
LoopPreRun_checkFlag(t) ==
    /\ wpc[t] = "pre_run"
    /\ IF stop_flag_
       THEN /\ wpc' = [wpc EXCEPT ![t] = "uninit"]
            /\ UNCHANGED hstate
       ELSE /\ hstate' = [hstate EXCEPT ![t] = Delta(hstate[t], "pre_run")]
            /\ wpc' = [wpc EXCEPT ![t] = "run"]
    /\ UNCHANGED <<stop_flag_, thread_, state_mutex_, nextTid, initOk, called,
                   tobj, apc, join_handle, snap, last, init_calls,
                   uninit_calls>>
    /\ UNCHANGED <<dtor, paceVars>>

\* Thread::loop, line 107: pre_run() of the dynamic type.
LoopPreRun(t) ==
    /\ wpc[t] = "pre_run"
    /\ hstate' = [hstate EXCEPT ![t] = Delta(hstate[t], "pre_run")]
    /\ wpc' = [wpc EXCEPT ![t] = "run"]
    /\ CASE kind = "timed" -> TimedThread_pre_run
         [] kind = "hires" -> HiResTimedThread_pre_run
         [] OTHER -> Thread_pre_run
    /\ UNCHANGED <<stop_flag_, thread_, state_mutex_, nextTid, initOk, called,
                   tobj, apc, join_handle, snap, last, init_calls,
                   uninit_calls>>
    /\ UNCHANGED <<dtor, configVars, timestamps_, iters>>

\* Thread::loop, line 108: run() is entered; the recording run() of the
\* timing tests notes the time.
LoopRun(t) ==
    /\ wpc[t] = "run"
    /\ hstate' = [hstate EXCEPT ![t] = Delta(hstate[t], "run")]
    /\ wpc' = [wpc EXCEPT ![t] = "in_run"]
    /\ called' = [called EXCEPT ![t] = "no"]
    /\ timestamps_' = IF kind = "base" THEN timestamps_
                      ELSE Append(timestamps_, now)
    /\ UNCHANGED <<stop_flag_, thread_, state_mutex_, nextTid, initOk,
                   tobj, apc, join_handle, snap, last, init_calls,
                   uninit_calls>>
    /\ UNCHANGED <<dtor, configVars, hookVars, iters>>

\* run() returns (any API call it made has returned).  The recording
\* run() has worked for some time and, with target_iterations_ times
\* recorded, has called stop(false).
LoopRunReturn(t) ==
    /\ wpc[t] = "in_run"
    /\ apc[t] = "idle"
    /\ (kind # "base" /\ Len(timestamps_) >= target_iterations_) =>
           called[t] = "stop"
    /\ wpc' = [wpc EXCEPT ![t] = "post_run"]
    /\ IF kind = "base"
       THEN now' = now
       ELSE \E work \in 0..MaxWork : now' = now + work /\ now' <= MaxTime
    /\ UNCHANGED <<stop_flag_, thread_, state_mutex_, nextTid, hstate, initOk,
                   called, tobj, apc, join_handle, snap, last, init_calls,
                   uninit_calls>>
    /\ UNCHANGED <<dtor, configVars, next_deadline_, first_iteration_, t0,
                   pace, timestamps_, iters>>

\* Variant of LoopPostRun that goes back to the loop condition without
\* calling post_run().
LoopPostRun_skipHook(t) ==
    /\ wpc[t] = "post_run"
    /\ wpc' = [wpc EXCEPT ![t] = "check"]
    /\ UNCHANGED <<stop_flag_, thread_, state_mutex_, nextTid, hstate, initOk,
                   called, tobj, apc, join_handle, snap, last, init_calls,
                   uninit_calls>>
    /\ UNCHANGED <<dtor, paceVars>>

\* Thread::loop, line 109: post_run() of the dynamic type.
LoopPostRun(t) ==
    /\ wpc[t] = "post_run"
    /\ hstate' = [hstate EXCEPT ![t] = Delta(hstate[t], "post_run")]
    /\ wpc' = [wpc EXCEPT ![t] = "check"]
    /\ CASE kind = "hires" -> HiResTimedThread_post_run
         [] OTHER -> Thread_post_run
    /\ iters' = IF kind = "base" THEN iters ELSE iters + 1
    /\ UNCHANGED <<stop_flag_, thread_, state_mutex_, nextTid, initOk, called,
                   tobj, apc, join_handle, snap, last, init_calls,
                   uninit_calls>>
    /\ UNCHANGED <<dtor, configVars, timestamps_>>

\* Thread::loop, lines 112-113: uninit() of the dynamic type, then the
\* thread function returns
\* (the record of what its last run() called goes with the thread).
LoopUninit(t) ==
    /\ wpc[t] = "uninit"
    /\ hstate' = [hstate EXCEPT ![t] = Delta(hstate[t], "uninit")]
    /\ uninit_calls' = uninit_calls + 1
    /\ wpc' = [wpc EXCEPT ![t] = "done"]
    /\ called' = [called EXCEPT ![t] = "no"]
    /\ CASE kind = "hires" -> HiResTimedThread_uninit
         [] OTHER -> Thread_uninit
    /\ iters' = 0
    /\ UNCHANGED <<stop_flag_, thread_, state_mutex_, nextTid, initOk,
                   tobj, apc, join_handle, snap, last, init_calls>>
    /\ UNCHANGED <<dtor, configVars, timestamps_>>

----------------------------------------------------------------------------
Next ==
    \/ \E a \in Actors : StartEnter(a)
    \/ \E a \in Actors : StartSpawn(a)
    \/ \E a \in Actors, w \in BOOLEAN : StopEnter(a, w)
    \/ \E a \in Actors : StopJoin(a)
    \/ \E t \in Tids : LoopInit(t)
    \/ \E t \in Tids : LoopCheck(t)
    \/ \E t \in Tids : LoopPreRun(t)
    \/ \E t \in Tids : LoopRun(t)
    \/ \E t \in Tids : LoopRunReturn(t)
    \/ \E t \in Tids : LoopPostRun(t)
    \/ \E t \in Tids : LoopUninit(t)

Spec == Init /\ [][Next]_vars

TypeOK ==
    /\ stop_flag_ \in BOOLEAN
    /\ thread_ \in Tids \cup {NoThread}
    /\ state_mutex_ \in Actors \cup {NoThread}
    /\ nextTid \in 0..MaxThreads
    /\ \A a \in Actors : apc[a] \in {"idle", "spawn", "join"}
    /\ dtor \in Callers \cup {Alive, Destroyed}
                 \cup {SubclassGone(c) : c \in Callers}
    /\ kind \in Kinds
    /\ micro_sec \in Args
    /\ sleep_duration_ \in 0..Period /\ loop_interval_ \in 0..Period
    /\ now \in 1..MaxTime
    /\ next_deadline_ \in 0..(MaxTime + Period)
    /\ first_iteration_ \in BOOLEAN
    /\ pace \in {"exact", "late", "overrun"}

\* Fair scheduling: every loop thread keeps running (each hook returns),
\* a join() returns once its thread has exited, and a start() that holds
\* the mutex completes.  Nothing obliges anybody to issue a call.
Fairness ==
    /\ \A t \in Tids :
          /\ WF_vars(LoopInit(t))
          /\ WF_vars(LoopCheck(t))
          /\ WF_vars(LoopPreRun(t))
          /\ WF_vars(LoopRun(t))
          /\ WF_vars(LoopRunReturn(t))
          /\ WF_vars(LoopPostRun(t))
          /\ WF_vars(LoopUninit(t))
    /\ \A a \in Actors : WF_vars(StopJoin(a)) /\ WF_vars(StartSpawn(a))

FairSpec == Spec /\ Fairness

\* The same Worker driven by one controlling thread: only Controller calls
\* start() and stop(); a loop thread may still call stop() from run().
NextSingle ==
    \/ StartEnter(Controller)
    \/ StartSpawn(Controller)
    \/ \E a \in {Controller} \cup Tids, w \in BOOLEAN : StopEnter(a, w)
    \/ StopJoin(Controller)
    \/ \E t \in Tids : LoopInit(t)
    \/ \E t \in Tids : LoopCheck(t)
    \/ \E t \in Tids : LoopPreRun(t)
    \/ \E t \in Tids : LoopRun(t)
    \/ \E t \in Tids : LoopRunReturn(t)
    \/ \E t \in Tids : LoopPostRun(t)
    \/ \E t \in Tids : LoopUninit(t)

SpecSingle == Init /\ [][NextSingle]_vars

\* One step of a loop thread.
LoopStep(t) ==
    \/ LoopInit(t)
    \/ LoopCheck(t)
    \/ LoopPreRun(t)
    \/ LoopRun(t)
    \/ LoopRunReturn(t)
    \/ LoopPostRun(t)
    \/ LoopUninit(t)

\* The Worker with its destructor.  Until a caller destroys the Worker
\* everything of Next may happen; while ~Thread() runs no caller touches
\* the Worker, the loop threads go on, and a run() may still ask for a
\* stop.
NextDtor ==
    \/ dtor = Alive /\ Next
    \/ \E c \in Callers : DtorEnter(c)
    \/ dtor \in Callers /\ StopJoin(dtor)
    \/ dtor \in Callers /\ \E t \in Tids : LoopStep(t)
    \/ dtor \in Callers /\ \E t \in Tids, w \in BOOLEAN : StopEnter(t, w)

SpecDtor == Init /\ [][NextDtor]_vars

\* The Worker of a concrete subclass, started and stopped by one
\* controlling thread, which in the end destroys it: first the subclass
\* part, then ~Thread().  From the subclass destructor on, the caller does
\* nothing else and the loop thread goes on until it has seen the stop
\* flag or the program is terminated.
NextSubclass ==
    \/ dtor = Alive /\ NextSingle
    \/ SubclassDtor(Controller)
    \/ dtor = SubclassGone(Controller) /\ ~Aborted /\ DtorEnter(Controller)
    \/ dtor = Controller /\ ~Aborted /\ StopJoin(Controller)
    \/ dtor \notin {Alive, Destroyed} /\ ~Aborted
          /\ \E t \in Tids : LoopStep(t)
    \/ dtor \notin {Alive, Destroyed} /\ ~Aborted
          /\ \E t \in Tids, w \in BOOLEAN : StopEnter(t, w)
    \/ ~Aborted /\ \E t \in Tids : PureVirtualCall(t)

SpecSubclass == Init /\ [][NextSubclass]_vars

\* A timing worker run as in the timing tests: one controlling thread
\* starts and stops it, and its run() calls stop(false).
NextPaced ==
    \/ StartEnter(Controller)
    \/ StartSpawn(Controller)
    \/ \E w \in BOOLEAN : StopEnter(Controller, w)
    \/ StopJoin(Controller)
    \/ \E t \in Tids : StopEnter(t, FALSE)
    \/ \E t \in Tids : LoopStep(t)

SpecPaced == InitPaced /\ [][NextPaced]_vars

\* A precision-paced worker shared by all the callers.
NextShared ==
    \/ \E a \in Callers : StartEnter(a)
    \/ \E a \in Callers : StartSpawn(a)
    \/ \E a \in Callers, w \in BOOLEAN : StopEnter(a, w)
    \/ \E a \in Callers : StopJoin(a)
    \/ \E t \in Tids : StopEnter(t, FALSE)
    \/ \E t \in Tids : LoopStep(t)

SpecShared == InitHiRes /\ [][NextShared]_vars

----------------------------------------------------------------------------
\* C1: at most one thread is executing the loop of the Worker at any time,
\* for any interleaving of start() and stop() calls.
C1_AtMostOneLoopThread == Cardinality(LiveSet) <= 1

\* C2: start() is rejected (returns false, stop flag and thread handle
\* unchanged) whenever a thread spawned by an earlier start() has not been
\* joined yet; in every other state it clears the stop flag and goes on to
\* spawn the thread.
C2_StartRejectedUntilJoined ==
    [][\A a \in Actors :
          StartEnter(a) =>
             IF \E t \in Tids : tobj[t] = "joinable"
             THEN /\ last' = <<a, "start", "false">>
                  /\ UNCHANGED <<stop_flag_, thread_>>
             ELSE stop_flag_' = FALSE /\ apc'[a] = "spawn"]_vars

\* C3: when a caller's stop(true) returns, at once or after the join, no
\* loop thread that was live when the call began is still live.
C3_StopTrueWaitsForExit ==
    [][\A a \in Callers :
          /\ (StopEnter(a, TRUE) /\ apc'[a] = "idle") => LiveSet = {}
          /\ StopJoin(a) => snap[a] \cap LiveSet = {}]_vars

\* C4 (as stated): a caller's stop(false) sets the stop flag, returns at
\* once and leaves the Worker without a joinable thread handle.
C4_StopFalseDetaches ==
    [][\A a \in Callers :
          StopEnter(a, FALSE) =>
              /\ stop_flag_'
              /\ apc'[a] = "idle"
              /\ thread_' = NoThread]_vars

\* C4 (amended): a caller's stop(false) sets the stop flag and returns at
\* once without touching the thread handle or the thread object, and
\* start() is rejected for as long as a handle is associated.
C4_StopFalseKeepsHandle ==
    /\ [][\A a \in Callers :
             StopEnter(a, FALSE) =>
                 /\ stop_flag_'
                 /\ apc'[a] = "idle" /\ last' = <<a, "stopF", "void">>
                 /\ UNCHANGED <<thread_, tobj, join_handle>>]_vars
    /\ [][\A a \in Actors :
             (StartEnter(a) /\ thread_ # NoThread) =>
                 /\ last' = <<a, "start", "false">>
                 /\ UNCHANGED <<stop_flag_, thread_, nextTid>>]_vars

\* The latest API event is a caller's returned stop(false); the loop thread
\* has seen the flag and is on its way out, its handle is still associated
\* and joinable.
C4_Witness ==
    \E a \in Callers : \E t \in Tids :
        /\ last = <<a, "stopF", "void">>
        /\ thread_ = t /\ tobj[t] = "joinable"
        /\ wpc[t] = "uninit" /\ hstate[t] = "post"

\* C5: a loop thread that calls stop() from its own run() never waits for
\* itself, and the iteration in which it did so is its last one: the next
\* test of the loop condition does not start another iteration.
C5_SelfStopEndsLoop ==
    /\ [](\A t \in Tids : join_handle[t] # t)
    /\ [][\A t \in Tids :
             (wpc[t] = "check" /\ called[t] = "stop") =>
                 wpc'[t] \in {"check", "uninit"}]_vars

\* C6: on every loop thread the hooks are invoked in the order init,
\* (pre_run, run, post_run)*, uninit; each hook is called only at its place
\* in that order, and a thread whose init succeeded and that has exited has
\* run whole iterations only, followed by exactly one uninit.
C6_HookOrder ==
    \A t \in Tids :
        /\ hstate[t] # "bad"
        /\ wpc[t] = "check" => hstate[t] \in {"init0", "post"}
        /\ (wpc[t] = "done" /\ initOk[t] = "ok") =>
               hstate[t] \in {"fin0", "fin"}

\* A thread has exited after init, at least one whole iteration and uninit.
C6_Witness ==
    \E t \in Tids : wpc[t] = "done" /\ initOk[t] = "ok" /\ hstate[t] = "fin"

\* C7: with one controlling thread, whenever the controller is between
\* calls and no handle is associated (n starts have each been followed by
\* a completed stop(true)), every spawned thread is joined and, no init
\* having failed, init and uninit have each been called exactly n times;
\* a start() issued right after a completed stop(true) is not rejected and
\* returns true when the thread is created.
C7_RestartCycles ==
    /\ []((apc[Controller] = "idle" /\ thread_ = NoThread) =>
            /\ \A t \in 1..nextTid : tobj[t] = "joined" /\ wpc[t] = "done"
            /\ (\A t \in Tids : initOk[t] # "fail") =>
                   (init_calls = nextTid /\ uninit_calls = nextTid))
    /\ [][(/\ StartEnter(Controller)
           /\ last[1] = Controller /\ last[2] = "stopT") =>
              (apc'[Controller] = "spawn" /\ stop_flag_' = FALSE)]_vars
    /\ [][(StartSpawn(Controller) /\ nextTid' # nextTid) =>
              (last' = <<Controller, "start", "true">>
               /\ thread_' = nextTid')]_vars

\* Two full cycles are complete, one of them stopped before the thread had
\* executed any iteration.
C7_Witness ==
    /\ last = <<Controller, "stopT", "void">>
    /\ nextTid = 2 /\ init_calls = 2 /\ uninit_calls = 2
    /\ thread_ = NoThread
    /\ \E t \in Tids : hstate[t] = "fin0"

\* C8: a thread whose init failed has invoked no other hook and has exited;
\* the failing step leaves the stop flag set; a stop(true) that took the
\* handle of such a thread is not blocked.
C8_InitFailure ==
    /\ [](\A t \in Tids :
             initOk[t] = "fail" => (hstate[t] = "init0" /\ wpc[t] = "done"))
    /\ [][\A t \in Tids :
             (initOk[t] = "none" /\ initOk'[t] = "fail") => stop_flag_']_vars
    /\ [](\A a \in Actors :
             (apc[a] = "join" /\ initOk[join_handle[a]] = "fail")
                 => ENABLED StopJoin(a))

\* A caller's stop(true) has returned after joining the only thread
\* spawned, whose init had failed.
C8_Witness ==
    \E a \in Callers :
        /\ last = <<a, "stopT", "void">>
        /\ nextTid = 1 /\ initOk[1] = "fail" /\ tobj[1] = "joined"

\* C9: stop() on a Worker that was never started returns at once and
\* changes neither the stop flag (set) nor the thread handle (none); a
\* stop(true) issued when the latest API event is the same actor's
\* returned stop(true) returns at once and changes nothing.
C9_StopIdempotent ==
    /\ [][\A a \in Actors : \A w \in BOOLEAN :
             (nextTid = 0 /\ StopEnter(a, w)) =>
                 /\ stop_flag_ /\ thread_ = NoThread
                 /\ UNCHANGED <<stop_flag_, thread_, tobj, join_handle>>
                 /\ apc'[a] = "idle"
                 /\ last'[3] \in {"void", "again"}]_vars
    /\ [][\A a \in Actors :
             (/\ last \in {<<a, "stopT", "void">>, <<a, "stopT", "again">>}
              /\ StopEnter(a, TRUE))
             => /\ UNCHANGED <<stop_flag_, thread_, tobj, join_handle>>
                /\ apc'[a] = "idle"
                /\ last' = <<a, "stopT", "again">>]_vars

\* A caller's stop(true) joined a thread, and its next stop(true) returned.
C9_Witness ==
    \E a \in Callers :
        /\ last = <<a, "stopT", "again">> /\ apc[a] = "idle"
        /\ nextTid = 1 /\ tobj[1] = "joined"

\* C10: when thread creation fails inside start(), the stop flag is set
\* again, no thread handle is associated, the mutex is released and start()
\* leaves by the exception; with no handle and a free mutex the next
\* start() passes the joinable test.
C10_CreationFailure ==
    /\ [][\A a \in Actors :
             (apc[a] = "spawn" /\ apc'[a] = "idle" /\ nextTid' = nextTid) =>
                 /\ stop_flag_'
                 /\ thread_' = NoThread
                 /\ state_mutex_' = NoThread
                 /\ last' = <<a, "start", "throw">>]_vars
    /\ [][\A a \in Actors : \A b \in Actors :
             (last = <<a, "start", "throw">> /\ StartEnter(b)) =>
                 apc'[b] = "spawn"]_vars

\* A start() has just thrown although the platform limit was not reached
\* (no caller is in the middle of a call).
C10_Witness ==
    \E a \in Callers :
        /\ last = <<a, "start", "throw">>
        /\ nextTid < MaxThreads
        /\ stop_flag_ /\ thread_ = NoThread /\ state_mutex_ = NoThread

\* C15: stop() sets the stop flag whatever else it does; the loop reads
\* the flag only at the loop condition, so an iteration that has begun
\* goes through pre_run, run and post_run in turn; the flag is cleared only
\* by a start() that passed the joinable test, and a thread that finds it
\* set at the loop condition leaves the loop.
C15_CooperativeCancel ==
    /\ [][stop_flag_' \/ \A a \in Actors : \A w \in BOOLEAN :
                              ~StopEnter(a, w)]_vars
    /\ [][\A t \in Tids :
             (wpc'[t] # wpc[t]) =>
                 /\ wpc[t] = "pre_run"  => wpc'[t] = "run"
                 /\ wpc[t] = "run"      => wpc'[t] = "in_run"
                 /\ wpc[t] = "in_run"   => wpc'[t] = "post_run"
                 /\ wpc[t] = "post_run" => wpc'[t] = "check"
                 /\ wpc[t] = "check"    =>
                        wpc'[t] = IF stop_flag_ THEN "uninit" ELSE "pre_run"]_vars
    /\ [][(stop_flag_ /\ ~stop_flag_') =>
             \E a \in Actors : last' = <<a, "start", "pending">>]_vars

\* A caller's stop() has set the flag while the loop thread was inside an
\* iteration; the thread has gone on to finish run() and is at post_run.
C15_Witness ==
    \E a \in Callers : \E t \in Tids :
        /\ last[1] = a /\ last[2] \in {"stopT", "stopF"}
        /\ stop_flag_
        /\ wpc[t] = "post_run" /\ called[t] = "no"

\* C19: under fair scheduling every stop(true) of a caller that waits in
\* join() eventually returns.
C19_StopTrueReturns ==
    \A a \in Callers : (apc[a] = "join") ~> (apc[a] = "idle")

\* C20: whenever the state mutex is free and no thread handle is
\* associated with the Worker, the stop flag is set.
C20_FlagClearOnlyWithHandle ==
    (state_mutex_ = NoThread /\ thread_ = NoThread) => stop_flag_

\* A stop(true) has taken the handle of a running thread: no handle is
\* associated, the mutex is free, the thread is still in its loop.
C20_Witness ==
    /\ state_mutex_ = NoThread /\ thread_ = NoThread /\ stop_flag_
    /\ \E a \in Callers : apc[a] = "join" /\ wpc[join_handle[a]] = "in_run"

\* C11: ~Thread() run by a caller performs a blocking stop: it sets the
\* stop flag and waits for the thread whose handle the Worker holds, and
\* once the Worker is destroyed no thread it spawned is alive.
C11_DestructionJoins ==
    /\ [](dtor = Destroyed => LiveSet = {})
    /\ [][\A c \in Callers :
             DtorEnter(c) =>
                 /\ stop_flag_'
                 /\ thread_ # NoThread =>
                        (dtor' = c /\ apc'[c] = "join"
                            /\ join_handle'[c] = thread_)]_vars

\* The destructor has waited for a loop thread that ran iterations, and a
\* run() asked for a stop meanwhile; both threads the platform allows have
\* been spawned before.
C11_Witness ==
    /\ dtor = Destroyed
    /\ last[1] \in Callers /\ last[2] = "stopT" /\ last[3] = "late"
    /\ \E t \in Tids : hstate[t] = "fin" /\ tobj[t] = "joined"
    /\ nextTid >= 2

\* C12: for a TimedThread with delay D > 0, whose sleep_for lets at least
\* D pass, every run() of a run after the first begins at least D after
\* the one before it; the delay is taken in pre_run, before every
\* iteration, the first included, and in no other hook.
C12_FixedDelayFloor ==
    /\ [][\A t \in Tids :
             (LoopRun(t) /\ kind = "timed" /\ sleep_duration_ > 0
                 /\ iters > 0) =>
                 now - timestamps_[Len(timestamps_)] >= sleep_duration_]_vars
    /\ [][\A t \in Tids :
             (kind = "timed" /\ sleep_duration_ > 0) =>
                 /\ LoopPreRun(t) => now' - now >= sleep_duration_
                 /\ (LoopInit(t) \/ LoopCheck(t) \/ LoopPostRun(t)
                        \/ LoopUninit(t)) => now' = now]_vars

\* The third run() of one run of a TimedThread with a positive delay has
\* been entered.
C12_Witness ==
    /\ kind = "timed" /\ sleep_duration_ > 0
    /\ iters >= 2 /\ Len(timestamps_) >= 3
    /\ \E t \in Tids : wpc[t] = "in_run"

\* C13: for a HiResTimedThread with period P > 0, as long as every
\* post_run of the run found the deadline ahead and woke exactly at it,
\* the deadline after the k-th post_run is t0 + (k+1)*P and the (k+1)-th
\* run() begins at t0 + k*P, exactly P after the one before it.
C13_NoDrift ==
    /\ []((kind = "hires" /\ loop_interval_ > 0 /\ pace = "exact"
              /\ t0 # 0) =>
             next_deadline_ = t0 + (iters + 1) * loop_interval_)
    /\ [][\A t \in Tids :
             (LoopRun(t) /\ kind = "hires" /\ loop_interval_ > 0
                 /\ pace = "exact") =>
                 /\ now = t0 + iters * loop_interval_
                 /\ iters > 0 =>
                      now - timestamps_[Len(timestamps_)] = loop_interval_]_vars

\* The third run() of an undisturbed run has been entered, two periods
\* after the first pre_run.
C13_Witness ==
    /\ kind = "hires" /\ loop_interval_ > 0 /\ pace = "exact"
    /\ iters = 2 /\ now = t0 + 2 * loop_interval_
    /\ \E t \in Tids : wpc[t] = "in_run"

\* C14: a negative constructor argument gives a zero delay or period, and
\* with a zero delay or period TimedThread::pre_run lets no time pass and
\* HiResTimedThread::pre_run and post_run let no time pass and leave the
\* deadline and the first-iteration flag alone.
C14_ZeroDisablesPacing ==
    /\ [](micro_sec < 0 => (sleep_duration_ = 0 /\ loop_interval_ = 0))
    /\ [][\A t \in Tids :
             (kind = "timed" /\ micro_sec <= 0 /\ LoopPreRun(t)) =>
                 now' = now]_vars
    /\ [][\A t \in Tids :
             (kind = "hires" /\ micro_sec <= 0
                 /\ (LoopPreRun(t) \/ LoopPostRun(t))) =>
                 UNCHANGED <<now, next_deadline_, first_iteration_>>]_vars

\* A HiResTimedThread built with a negative argument has gone through an
\* iteration with the deadline still unset and the flag still true.
C14_Witness ==
    /\ kind = "hires" /\ micro_sec < 0
    /\ iters >= 1 /\ first_iteration_ /\ next_deadline_ = 0

\* C16: HiResTimedThread::post_run with period P > 0: with the deadline
\* ahead it sleeps at least until the deadline and moves the deadline on
\* by P; otherwise it lets no time pass and sets the deadline P after the
\* present time, so that it lies ahead again.
C16_PostRunDeadline ==
    [][\A t \in Tids :
          (LoopPostRun(t) /\ kind = "hires" /\ loop_interval_ > 0) =>
              IF now < next_deadline_
              THEN /\ now' >= next_deadline_
                   /\ next_deadline_' = next_deadline_ + loop_interval_
              ELSE /\ now' = now
                   /\ next_deadline_' = now + loop_interval_
                   /\ now' < next_deadline_']_vars

\* A run() has overrun its deadline and post_run has set the deadline one
\* period after the present time.
C16_Witness ==
    /\ kind = "hires" /\ loop_interval_ > 0 /\ pace = "overrun"
    /\ iters >= 1 /\ next_deadline_ = now + loop_interval_
    /\ now > t0 + iters * loop_interval_
    /\ \E t \in Tids : wpc[t] = "check"

C18_FreshDeadlinePerRun ==
    /\ [][\A t \in Tids :
             (wpc[t] = "unborn" /\ wpc'[t] = "init") =>
                 (first_iteration_' /\ next_deadline_' = 0)]_vars
    /\ [][\A t \in Tids :
             (LoopPreRun(t) /\ hstate[t] = "init0" /\ kind = "hires"
                 /\ loop_interval_ > 0) =>
                 next_deadline_' = now + loop_interval_]_vars

\* C21: once the subclass part of the Worker has been destroyed the loop
\* thread invokes no hook: every call of init, pre_run, run, post_run or
\* uninit happens on a living Worker.
C21_NoHookAfterSubclassGone ==
    [][\A t \in Tids :
          (LoopInit(t) \/ LoopPreRun(t) \/ LoopRun(t) \/ LoopPostRun(t)
              \/ LoopUninit(t) \/ PureVirtualCall(t)) =>
              dtor = Alive]_vars

====
